---- MODULE Spec2Model ----
(***************************************************************************)
(* portquota: per-port traffic quota on top of nftables named counters     *)
(* and ufw allow rules.  The model covers the counter backend (nft), the   *)
(* policy backend (ufw), the files (config.toml, usage.json and their      *)
(* .tmp siblings), the daemon loop and the curses console.                 *)
(*                                                                         *)
(* A limit_gb value is held in half-units (2 = 1.0, 1 = 0.5), which are    *)
(* exact as Python floats, so int(limit_gb * unit_size) is exact too.      *)
(***************************************************************************)
EXTENDS Integers, Sequences, FiniteSets, TLC

VARIABLES
    counters,    \* nft named counters: name -> bytes, or Absent
    chains,      \* nft chains of table inet traffic: existing chain -> rules
    ufwRules,    \* ufw user rules in the order of `ufw status numbered`
    configFile,  \* config.toml on disk (rendered text, as parsed tables)
    usageFile,   \* usage.json on disk
    tmpFile,     \* usage.json.tmp on disk
    dpc,         \* daemon: "stopped" | "running"
    dItems,      \* daemon: items of loop()
    dUnit,       \* daemon: unit of loop()
    cpc,         \* console: "off" | "running"
    cfg,         \* console: cfg of run_tui (nonlocal in save_config)
    items,       \* console: items of run_tui
    state,       \* console: state dict (selected, message, watch)
    rows,        \* console: rows of the last snapshot()
    issued,      \* backend commands the last handler issued, in order
    resetSince,  \* ports reset by the operator since the last daemon cycle
    wpc,         \* write_json_atomic: position of the writer
    wData,       \* write_json_atomic: data argument
    wOld,        \* content of usage.json when the current write began
    upc,         \* ufw_delete_rules_matching: position
    uPattern,    \* ufw_delete_rules_matching: regex argument
    uScanned,    \* ufw_delete_rules_matching: the listing that was scanned
    uQueue,      \* ufw_delete_rules_matching: indices still to delete
    sRcs,        \* sync_rules: return code of each command in `issued`
    sRet,        \* sync_rules: what its caller got ("none" before any call)
    pOp,         \* policy adapter: the call in progress (op, port)
    dPos,        \* daemon loop: index in items of the entry in hand, 0 between cycles
    dUsed,       \* daemon loop: <<used_bytes>> once read for the entry in hand
    dOut         \* daemon loop: out["ports"] of the cycle in progress

vars == <<counters, chains, ufwRules, configFile, usageFile, tmpFile,
          dpc, dItems, dUnit, cpc, cfg, items, state, rows,
          issued, resetSince, wpc, wData, wOld,
          upc, uPattern, uScanned, uQueue, sRcs, sRet, pOp,
          dPos, dUsed, dOut>>

nftVars     == <<counters, chains>>
daemonVars  == <<dpc, dItems, dUnit>>
consoleVars == <<cpc, cfg, items, state, rows>>
writeVars   == <<wpc, wData, wOld>>
ufwOpVars   == <<upc, uPattern, uScanned, uQueue>>
callVars    == <<sRcs, sRet, pOp>>
loopVars    == <<dPos, dUsed, dOut>>

----
\* Bounds of the model
MaxItems == 2      \* console: entries the operator adds up to
MaxRules == 3      \* ufw: rules in a listing handed to the delete scan
MaxChainRules == 4 \* nft: rules in the chains when a command of sync_rules fails

\* Program constants
INGRESS == "ingress"
EGRESS  == "egress"
GB_SIZE  == 1000000000
GIB_SIZE == 1073741824

Ports      == {9000, 9001}
Absent     == -1
ByteVals   == {0, 1000000000, 1000000001}
DefaultExclude == <<"lo", "docker0">>

----
\* Generic helpers
Range(s) == {s[i] : i \in DOMAIN s}

BagOfSeq(s) == [x \in Range(s) |-> Cardinality({i \in DOMAIN s : s[i] = x})]

RemoveAt(s, i) == [j \in 1..(Len(s) - 1) |-> IF j < i THEN s[j] ELSE s[j + 1]]

\* Python list indexing, 0-based, negative indices counting from the end
PyIndex(s, i) == IF i >= 0 THEN s[i + 1] ELSE s[Len(s) + i + 1]

----
\* Counter backend (nft)

\* f"port{port}_total"
CounterName(port) == <<"port", port, "_total">>

CounterNames == {CounterName(p) : p \in Ports}

\* rule_line(...) + comment
RuleLine(exclude_ifaces, proto, direction, port, counter_name) ==
    [chain   |-> direction,
     iface   |-> IF Len(exclude_ifaces) > 0
                 THEN <<(IF direction = INGRESS THEN "iifname" ELSE "oifname"),
                        "!=", exclude_ifaces>>
                 ELSE <<>>,
     proto   |-> proto,
     match   |-> IF direction = INGRESS THEN "dport" ELSE "sport",
     port    |-> port,
     counter |-> counter_name,
     comment |-> <<"pq", port, direction, proto>>]

\* nft -f "flush chain inet traffic <c>": fails (no effect) on a missing chain
NftFlushChain(ch, c) ==
    IF c \in DOMAIN ch THEN [ch EXCEPT ![c] = <<>>] ELSE ch

\* nft -f "add rule inet traffic <direction> ...": appended to the chain
NftAddRule(ch, rule) ==
    IF rule.chain \in DOMAIN ch
    THEN [ch EXCEPT ![rule.chain] = Append(@, rule)]
    ELSE ch

\* nft -f "add chain ...": creates the chain when it is missing
NftAddChain(ch, c) ==
    IF c \in DOMAIN ch THEN ch
    ELSE [x \in (DOMAIN ch) \cup {c} |-> IF x = c THEN <<>> ELSE ch[x]]

ensure_infra(ch) ==
    LET c1 == IF INGRESS \in DOMAIN ch THEN ch ELSE NftAddChain(ch, INGRESS)
    IN  IF EGRESS \in DOMAIN c1 THEN c1 ELSE NftAddChain(c1, EGRESS)

ensure_counter_reset(ctr, counter_name) == [ctr EXCEPT ![counter_name] = 0]

ensure_counter(ctr, counter_name) ==
    IF ctr[counter_name] = Absent
    THEN [ctr EXCEPT ![counter_name] = 0]
    ELSE ctr

\* commands ensure_counter issues
ensure_counter_cmds(ctr, counter_name) ==
    IF ctr[counter_name] = Absent
    THEN <<[tool |-> "nft", verb |-> "add counter", name |-> counter_name,
            port |-> 0, idx |-> 0]>>
    ELSE <<>>

reset_counter(ctr, counter_name) ==
    IF ctr[counter_name] = Absent THEN ctr
    ELSE [ctr EXCEPT ![counter_name] = 0]

nft_counter_bytes_unchecked(ctr, counter_name, ok) == ctr[counter_name]

\* nft_counter_bytes: ok is whether `nft -j list counter` succeeded
nft_counter_bytes(ctr, counter_name, ok) ==
    IF ~ok \/ ctr[counter_name] = Absent THEN 0 ELSE ctr[counter_name]

DirsOf_single(direction) == <<direction>>

\* dirs = [INGRESS, EGRESS] if direction == "both" else [direction]
DirsOf(direction) ==
    IF direction = "both" THEN <<INGRESS, EGRESS>> ELSE <<direction>>

\* the inner loops of sync_rules for one port: for d in dirs: for proto in ...
RECURSIVE AddProtos(_, _, _, _, _)
AddProtos(ch, d, protos, port, cname) ==
    IF protos = <<>> THEN ch
    ELSE AddProtos(NftAddRule(ch, RuleLine(DefaultExclude, Head(protos), d, port, cname)),
                   d, Tail(protos), port, cname)

RECURSIVE AddDirs(_, _, _, _, _)
AddDirs(ch, dirs, protos, port, cname) ==
    IF dirs = <<>> THEN ch
    ELSE AddDirs(AddProtos(ch, Head(dirs), protos, port, cname),
                 Tail(dirs), protos, port, cname)

\* for p in cfg.get("ports", []): ... ; nft is [chains, counters, cmds]
RECURSIVE SyncPorts(_, _, _)
SyncPorts(nft, ports, protos) ==
    IF ports = <<>> THEN nft
    ELSE LET p     == Head(ports)
             cname == CounterName(p.port)
         IN  SyncPorts(
               [chains   |-> AddDirs(nft.chains, DirsOf(p.direction), protos, p.port, cname),
                counters |-> ensure_counter(nft.counters, cname),
                cmds     |-> nft.cmds \o ensure_counter_cmds(nft.counters, cname)],
               Tail(ports), protos)

sync_rules_noflush(c, ch, ctr) ==
    SyncPorts([chains |-> ensure_infra(ch), counters |-> ctr, cmds |-> <<>>],
              c.ports, c.general.protocols)

sync_rules(c, ch, ctr) ==
    LET infra   == ensure_infra(ch)
        flushed == NftFlushChain(NftFlushChain(infra, INGRESS), EGRESS)
    IN  SyncPorts([chains |-> flushed, counters |-> ctr, cmds |-> <<>>],
                  c.ports, c.general.protocols)

----
\* Policy backend (ufw)

\* A user rule: ufw keeps the IPv4 rules before the IPv6 rules.
UfwRule(port, proto, action, v6) ==
    [port |-> port, proto |-> proto, action |-> action, v6 |-> v6]

\* One word of a status line: a "<port>/<proto>" word or a plain word
PortWord(port, proto) == [port |-> port, proto |-> proto, word |-> ""]
Word(w)               == [port |-> 0, proto |-> "", word |-> w]

\* The body of one line of `ufw status numbered`, as its words in order:
\* "9000/tcp (v6)   ALLOW IN   Anywhere (v6)"
StatusBody(r) ==
    <<PortWord(r.port, r.proto)>>
    \o (IF r.v6 THEN <<Word("(v6)")>> ELSE <<>>)
    \o <<Word(r.action), Word("IN"), Word("Anywhere")>>
    \o (IF r.v6 THEN <<Word("(v6)")>> ELSE <<>>)

\* ufw_status_text(numbered=True): header lines (num = 0 stands for a line
\* without "[ n]"), then one "[ n] body" line per rule
ufw_status_text(rules) ==
    <<[num |-> 0, body |-> <<Word("Status:"), Word("active")>>],
      [num |-> 0, body |-> <<Word("To"), Word("Action"), Word("From")>>]>>
    \o [i \in 1..Len(rules) |-> [num |-> i, body |-> StatusBody(rules[i])]]

\* re.compile(rf"\b{port}/tcp\b.*\b<ACTION>\b", re.I).search(body)
RegexSearch(pattern, body) ==
    \E i \in DOMAIN body : \E j \in DOMAIN body :
        /\ i < j
        /\ body[i] = PortWord(pattern.port, "tcp")
        /\ body[j] = Word(pattern.action)

\* ufw delete <idx>
UfwDeleteIndex(rules, idx) ==
    IF idx \in DOMAIN rules THEN RemoveAt(rules, idx) ELSE rules

\* ufw allow <port>/tcp: adds the IPv4 and the IPv6 rule that are missing
UfwAllowTcp(rules, port) ==
    LET r4 == UfwRule(port, "tcp", "ALLOW", FALSE)
        r6 == UfwRule(port, "tcp", "ALLOW", TRUE)
        v4 == SelectSeq(rules, LAMBDA r : ~r.v6)
        v6 == SelectSeq(rules, LAMBDA r : r.v6)
    IN  (IF r4 \in Range(rules) THEN v4 ELSE Append(v4, r4))
        \o (IF r6 \in Range(rules) THEN v6 ELSE Append(v6, r6))

\* ufw delete allow <port>/tcp: removes the IPv4 and the IPv6 rule of exactly
\* this form; no effect when there is none
UfwDeleteAllowTcp(rules, port) ==
    SelectSeq(rules, LAMBDA r : ~(r.port = port /\ r.proto = "tcp" /\ r.action = "ALLOW"))

block_port_tcp_by_removing_allow(rules, port) == UfwDeleteAllowTcp(rules, port)

ensure_port_allowed_tcp(rules, port) == UfwAllowTcp(rules, port)

\* A backend command as logged: the counter it names, or the port and index
\* it names
NftCmd(verb, counter_name) ==
    [tool |-> "nft", verb |-> verb, name |-> counter_name, port |-> 0, idx |-> 0]
UfwCmd(verb, port, idx) ==
    [tool |-> "ufw", verb |-> verb, name |-> <<"", 0, "">>, port |-> port, idx |-> idx]

AllowRules(rules) == {r \in Range(rules) : r.action = "ALLOW"}

----
\* Configuration file

UnitSize(unit) == IF unit = "GB" THEN GB_SIZE ELSE GIB_SIZE

\* int(limit_gb * unit_size), limit_gb in half-units
LimitBytes(limit_gb, unit_size) == limit_gb * (unit_size \div 2)

Upper(unit) == IF unit = "GiB" THEN "GIB" ELSE unit

\* ("%s" % limit_gb).rstrip('0').rstrip('.'): the digits before the point
\* and, when it is not zero, the digit after it
FormatLimit(limit_gb) ==
    IF limit_gb % 2 = 0 THEN <<limit_gb \div 2>> ELSE <<limit_gb \div 2, 5>>

\* float(p["limit_gb"]) of the TOML number
ParseLimit(text) ==
    IF Len(text) = 1 THEN 2 * text[1] ELSE 2 * text[1] + (text[2] \div 5)

Entry(port, limit_gb, direction) ==
    [port |-> port, limit_gb |-> limit_gb, direction |-> direction]

render_config_toml_default_direction(general, ports) ==
    [general |-> [unit |-> Upper(general.unit), protocols |-> general.protocols],
     ports   |-> [i \in 1..Len(ports) |->
                    [port      |-> ports[i].port,
                     limit_gb  |-> FormatLimit(ports[i].limit_gb),
                     direction |-> "both"]]]

render_config_toml(general, ports) ==
    [general |-> [unit |-> Upper(general.unit), protocols |-> general.protocols],
     ports   |-> [i \in 1..Len(ports) |->
                    [port      |-> ports[i].port,
                     limit_gb  |-> FormatLimit(ports[i].limit_gb),
                     direction |-> ports[i].direction]]]

\* what stands for the value of a key the table lacks, or that int() or
\* float() rejects
NoValue == -2

\* tomllib.load: a table is loaded as it is written, with or without its keys
load_config(file) ==
    [general |-> file.general,
     ports   |-> [i \in 1..Len(file.ports) |->
                    Entry(file.ports[i].port,
                          IF file.ports[i].limit_gb = <<>> THEN NoValue
                          ELSE ParseLimit(file.ports[i].limit_gb),
                          file.ports[i].direction)]]

\* the items list built by loop(), run_tui() and save_config()
ItemsOf(c) ==
    [i \in 1..Len(c.ports) |->
        [port      |-> c.ports[i].port,
         limit_gb  |-> c.ports[i].limit_gb,
         direction |-> c.ports[i].direction,
         cname     |-> CounterName(c.ports[i].port)]]

\* The configurations the host starts with
ScenarioFile ==
    [general |-> [unit |-> "GB", protocols |-> <<"tcp", "udp">>],
     ports   |-> <<[port |-> 9000, limit_gb |-> <<1>>, direction |-> "both"]>>]

TwoPortFile ==
    [general |-> [unit |-> "GB", protocols |-> <<"tcp">>],
     ports   |-> <<[port |-> 9000, limit_gb |-> <<1>>, direction |-> "ingress"],
                   [port |-> 9001, limit_gb |-> <<0, 5>>, direction |-> "egress"]>>]

GiBFile ==
    [general |-> [unit |-> "GiB", protocols |-> <<"udp">>],
     ports   |-> <<[port |-> 9001, limit_gb |-> <<0, 5>>, direction |-> "both"]>>]

EmptyFile ==
    [general |-> [unit |-> "GB", protocols |-> <<"tcp", "udp">>], ports |-> <<>>]

InitConfigs == {ScenarioFile, TwoPortFile, GiBFile, EmptyFile}

----
\* Files: usage.json and usage.json.tmp hold the text json.dump wrote so far,
\* one chunk for the head (unit), one per port entry, one for the closing brace

NoFile == [exists |-> FALSE, text |-> <<>>]

HeadChunk(unit) ==
    [kind |-> "head", unit |-> unit, port |-> 0, bytes |-> 0, limit |-> 0,
     direction |-> "", status |-> ""]

EntryChunk(e) ==
    [kind |-> "entry", unit |-> "", port |-> e.port, bytes |-> e.bytes,
     limit |-> e.limit, direction |-> e.direction, status |-> e.status]

TailChunk ==
    [kind |-> "tail", unit |-> "", port |-> 0, bytes |-> 0, limit |-> 0,
     direction |-> "", status |-> ""]

\* json.dump(data, f, indent=2, ensure_ascii=False)
JsonDump(data) ==
    <<HeadChunk(data.unit)>>
    \o [i \in 1..Len(data.ports) |-> EntryChunk(data.ports[i])]
    \o <<TailChunk>>

\* a text is a complete JSON document when it runs from the head to the tail
IsCompleteJson(text) ==
    /\ Len(text) >= 2
    /\ text[1].kind = "head"
    /\ text[Len(text)].kind = "tail"
    /\ \A i \in 2..(Len(text) - 1) : text[i].kind = "entry"

\* the port entries of a complete usage file
UsageEntries(file) ==
    IF file.exists /\ IsCompleteJson(file.text)
    THEN [i \in 1..(Len(file.text) - 2) |-> file.text[i + 1]]
    ELSE <<>>

UsageUnit(file) == file.text[1].unit

\* write_json_atomic as a whole: the file the path names afterwards
write_json_atomic(data) == [exists |-> TRUE, text |-> JsonDump(data)]

----
\* Daemon loop

exceeded_strict(used_bytes, limit_bytes) == used_bytes > limit_bytes

\* exceeded = used_bytes >= limit_bytes
exceeded(used_bytes, limit_bytes) == used_bytes >= limit_bytes

\* out["ports"][str(port)] = {...}: a dict keeps the position of a key it has
DictSet(d, e) ==
    IF \E i \in DOMAIN d : d[i].port = e.port
    THEN [i \in DOMAIN d |-> IF d[i].port = e.port THEN e ELSE d[i]]
    ELSE Append(d, e)

LoopBody_unblock(acc, item, used_bytes, unit_size) ==
    LET limit_bytes == LimitBytes(item.limit_gb, unit_size)
        ex          == exceeded(used_bytes, limit_bytes)
    IN  [ufw  |-> IF ex THEN block_port_tcp_by_removing_allow(acc.ufw, item.port)
                  ELSE ensure_port_allowed_tcp(acc.ufw, item.port),
         cmds |-> IF ex THEN Append(acc.cmds, UfwCmd("delete allow", item.port, 0))
                  ELSE Append(acc.cmds, UfwCmd("allow", item.port, 0)),
         out  |-> DictSet(acc.out,
                          [port |-> item.port, bytes |-> used_bytes,
                           limit |-> item.limit_gb, direction |-> item.direction,
                           status |-> IF ex THEN "blocked" ELSE "open"])]

\* the body of `for (port, limit_gb, direction, cname) in items` in loop()
LoopBody(acc, item, used_bytes, unit_size) ==
    LET limit_bytes == LimitBytes(item.limit_gb, unit_size)
        ex          == exceeded(used_bytes, limit_bytes)
    IN  [ufw  |-> IF ex THEN block_port_tcp_by_removing_allow(acc.ufw, item.port)
                  ELSE acc.ufw,
         cmds |-> IF ex THEN Append(acc.cmds, UfwCmd("delete allow", item.port, 0))
                  ELSE acc.cmds,
         out  |-> DictSet(acc.out,
                          [port |-> item.port, bytes |-> used_bytes,
                           limit |-> item.limit_gb, direction |-> item.direction,
                           status |-> IF ex THEN "blocked" ELSE "open"])]

\* what nft_counter_bytes can return for the entries of a list, one value per
\* entry: every counter query succeeds or fails on its own
ReadResults(its, ctr) ==
    {[i \in 1..Len(its) |-> nft_counter_bytes(ctr, its[i].cname, oks[i])] :
        oks \in [1..Len(its) -> BOOLEAN]}

\* one pass over items; bs[i] is what nft_counter_bytes returned for item i
RECURSIVE LoopItems(_, _, _, _, _)
LoopItems(acc, its, i, bs, unit_size) ==
    IF i > Len(its) THEN acc
    ELSE LoopItems(LoopBody(acc, its[i], bs[i], unit_size), its, i + 1, bs, unit_size)

\* ensure_counter(cname) for every entry while items is built
RECURSIVE EnsureAll(_, _)
EnsureAll(nft, its) ==
    IF its = <<>> THEN nft
    ELSE EnsureAll([chains   |-> nft.chains,
                    counters |-> ensure_counter(nft.counters, Head(its).cname),
                    cmds     |-> nft.cmds \o ensure_counter_cmds(nft.counters, Head(its).cname)],
                   Tail(its))

\* ensure_infra(); sync_rules(cfg); then the items list with its counters
StartUp(c, ch, ctr) == EnsureAll(sync_rules(c, ensure_infra(ch), ctr), ItemsOf(c))

\* main() --daemon: load_config, then loop() up to its `while True`
DaemonStart ==
    LET c   == load_config(configFile)
        nft == StartUp(c, chains, counters)
    IN  /\ chains'   = nft.chains
        /\ counters' = nft.counters
        /\ dpc'      = "running"
        /\ dItems'   = ItemsOf(c)
        /\ dUnit'    = Upper(c.general.unit)
        /\ issued'   = nft.cmds
        /\ UNCHANGED <<ufwRules, configFile, usageFile, tmpFile, consoleVars,
                       resetSince, writeVars, ufwOpVars, callVars, loopVars>>

\* one iteration of `while True` in loop(): every port, then the snapshot
DaemonCycle ==
    /\ dpc = "running"
    /\ \E bs \in ReadResults(dItems, counters) :
         LET acc == LoopItems([ufw |-> ufwRules, cmds |-> <<>>, out |-> <<>>],
                              dItems, 1, bs, UnitSize(dUnit))
         IN  /\ ufwRules'  = acc.ufw
             /\ issued'    = acc.cmds
             /\ usageFile' = write_json_atomic([unit |-> dUnit, ports |-> acc.out])
    /\ tmpFile'    = NoFile
    /\ resetSince' = {}
    /\ UNCHANGED <<nftVars, configFile, daemonVars, consoleVars, writeVars, ufwOpVars, callVars, loopVars>>

\* KeyboardInterrupt / service stop during the sleep
DaemonStop ==
    /\ dpc = "running"
    /\ dpc'    = "stopped"
    /\ issued' = <<>>
    /\ UNCHANGED <<nftVars, ufwRules, configFile, usageFile, tmpFile, dItems, dUnit,
                   consoleVars, resetSince, writeVars, ufwOpVars, callVars, loopVars>>

----
\* Console (run_tui)

NoMessage == <<"", 0>>

\* rows of snapshot(): bytes is the b the row was computed from
RowOf(item, b, unit_size) ==
    [port      |-> item.port,
     bytes     |-> b,
     limit     |-> item.limit_gb,
     direction |-> item.direction,
     status    |-> IF b >= LimitBytes(item.limit_gb, unit_size) THEN "blocked" ELSE "open"]

\* bs[i] is what nft_counter_bytes returned for entry i
snapshot(its, bs, unit_size) ==
    [i \in 1..Len(its) |-> RowOf(its[i], bs[i], unit_size)]

ConsoleUnitSize == UnitSize(Upper(cfg.general.unit))

\* rows = snapshot() at the end of every pass of run_loop, over the new items
\* and counters
Redraw ==
    \E bs \in ReadResults(items', counters') :
        rows' = snapshot(items', bs, UnitSize(Upper(cfg'.general.unit)))

\* run_tui up to the first draw
TuiStart ==
    /\ cpc = "off"
    /\ LET c   == load_config(configFile)
           nft == StartUp(c, chains, counters)
       IN  /\ cfg'      = c
           /\ chains'   = nft.chains
           /\ counters' = nft.counters
           /\ items'    = ItemsOf(c)
           /\ issued'   = nft.cmds
    /\ cpc'    = "running"
    /\ state'  = [selected |-> 0, message |-> NoMessage, watch |-> FALSE]
    /\ Redraw
    /\ UNCHANGED <<ufwRules, configFile, usageFile, tmpFile, daemonVars,
                   resetSince, writeVars, ufwOpVars, callVars, loopVars>>

\* what every key handler that touches no backend and no file leaves alone
KeyFrame ==
    /\ cpc = "running"
    /\ cpc' = cpc
    /\ UNCHANGED <<configFile, usageFile, tmpFile, daemonVars, writeVars, ufwOpVars, callVars, loopVars>>

\* q / Q
KeyQuit ==
    /\ cpc = "running"
    /\ cpc'    = "off"
    /\ issued' = <<>>
    /\ UNCHANGED <<nftVars, ufwRules, configFile, usageFile, tmpFile, daemonVars,
                   cfg, items, state, rows, resetSince, writeVars, ufwOpVars, callVars, loopVars>>

\* KEY_UP / k
KeyUp ==
    /\ KeyFrame
    /\ state'  = [state EXCEPT !.selected = IF state.selected - 1 > 0
                                            THEN state.selected - 1 ELSE 0]
    /\ issued' = <<>>
    /\ UNCHANGED <<nftVars, ufwRules, cfg, items, resetSince>>
    /\ Redraw

\* KEY_DOWN / j
KeyDown ==
    /\ KeyFrame
    /\ state'  = [state EXCEPT !.selected = IF Len(items) - 1 < state.selected + 1
                                            THEN Len(items) - 1
                                            ELSE state.selected + 1]
    /\ issued' = <<>>
    /\ UNCHANGED <<nftVars, ufwRules, cfg, items, resetSince>>
    /\ Redraw

\* space / r
KeyRefresh ==
    /\ KeyFrame
    /\ issued' = <<>>
    /\ UNCHANGED <<nftVars, ufwRules, cfg, items, state, resetSince>>
    /\ Redraw

\* the item Enter acts on
ResetTarget_first(its, selected) == its[1]

ResetTarget(its, selected) == PyIndex(its, selected)

\* Enter: reset the counter of the selected port and allow it again
KeyEnter ==
    /\ KeyFrame
    /\ IF Len(items) > 0
       THEN LET port == ResetTarget(items, state.selected).port
            IN  /\ counters'   = reset_counter(counters, CounterName(port))
                /\ ufwRules'   = ensure_port_allowed_tcp(ufwRules, port)
                /\ state'      = [state EXCEPT !.message = <<"reset_and_allowed", port>>]
                /\ issued'     = <<NftCmd("reset counter", CounterName(port)),
                                   UfwCmd("allow", port, 0)>>
                /\ resetSince' = resetSince \cup {port}
       ELSE /\ issued' = <<>>
            /\ UNCHANGED <<counters, ufwRules, state, resetSince>>
    /\ UNCHANGED <<chains, cfg, items>>
    /\ Redraw

\* what the operator types at the prompts of a / A
AddDirInputs == {""}
AddLimitInputs == {2}

\* a / A with a port number typed: the entry is appended and selected
KeyAdd ==
    /\ KeyFrame
    /\ Len(items) < MaxItems
    /\ \E nport \in Ports : \E nlim \in AddLimitInputs : \E typed \in AddDirInputs :
         LET sdir0 == IF typed = "" THEN "both" ELSE typed
             sdir  == IF sdir0 \notin {"both", "ingress", "egress"} THEN "both" ELSE sdir0
             cname == CounterName(nport)
         IN  /\ counters' = ensure_counter(counters, cname)
             /\ issued'   = ensure_counter_cmds(counters, cname)
             /\ items'    = Append(items, [port |-> nport, limit_gb |-> nlim,
                                           direction |-> sdir, cname |-> cname])
             /\ state'    = [state EXCEPT !.selected = Len(items') - 1,
                                           !.message = <<"added", nport>>]
    /\ UNCHANGED <<chains, ufwRules, cfg, resetSince>>
    /\ Redraw

\* a / A with text that int() rejects
KeyAddInvalid ==
    /\ KeyFrame
    /\ state'  = [state EXCEPT !.message = <<"invalid_not_added", 0>>]
    /\ issued' = <<>>
    /\ UNCHANGED <<nftVars, ufwRules, cfg, items, resetSince>>
    /\ Redraw

\* d / D: the selected entry is removed from the list
KeyDelete ==
    /\ KeyFrame
    /\ IF Len(items) > 0
       THEN LET idx == state.selected
                pos == IF idx >= 0 THEN idx + 1 ELSE Len(items) + idx + 1
                p   == PyIndex(items, idx).port
                n   == Len(items) - 1
            IN  /\ items' = RemoveAt(items, pos)
                /\ state' = [state EXCEPT
                               !.selected = IF (IF idx < n - 1 THEN idx ELSE n - 1) > 0
                                            THEN (IF idx < n - 1 THEN idx ELSE n - 1)
                                            ELSE 0,
                               !.message  = <<"removed_unsaved", p>>]
       ELSE UNCHANGED <<items, state>>
    /\ issued' = <<>>
    /\ UNCHANGED <<nftVars, ufwRules, cfg, resetSince>>
    /\ Redraw

\* s / S: save_config(), then the message
KeySave ==
    /\ cpc = "running"
    /\ LET new_ports == [i \in 1..Len(items) |->
                            Entry(items[i].port, items[i].limit_gb, items[i].direction)]
           text      == render_config_toml(cfg.general, new_ports)
           c         == load_config(text)
           nft       == StartUp(c, chains, counters)
           its       == ItemsOf(c)
       IN  /\ configFile' = text
           /\ cfg'        = c
           /\ chains'     = nft.chains
           /\ counters'   = nft.counters
           /\ issued'     = nft.cmds
           /\ items'      = its
           /\ state'      = [state EXCEPT
                               !.selected = IF state.selected >= Len(its)
                                            THEN (IF Len(its) - 1 > 0 THEN Len(its) - 1 ELSE 0)
                                            ELSE state.selected,
                               !.message  = <<"saved", 0>>]
    /\ cpc'    = cpc
    /\ UNCHANGED <<ufwRules, usageFile, tmpFile, daemonVars, resetSince, writeVars, ufwOpVars, callVars, loopVars>>
    /\ Redraw

\* R or any unbound key: `ch in (ord('R'))` raises TypeError and run_tui ends
\* (the w key and its timed refresh are left out: state.watch stays False)
KeyOther ==
    /\ cpc = "running"
    /\ cpc'    = "off"
    /\ issued' = <<>>
    /\ UNCHANGED <<nftVars, ufwRules, configFile, usageFile, tmpFile, daemonVars,
                   cfg, items, state, rows, resetSince, writeVars, ufwOpVars, callVars, loopVars>>

----
\* Environment: packets matched by the rules of a port add to its counter
Traffic ==
    /\ \E p \in Ports : \E v \in ByteVals :
         /\ counters[CounterName(p)] # Absent
         /\ \E c \in DOMAIN chains : \E i \in DOMAIN chains[c] :
                chains[c][i].counter = CounterName(p)
         /\ v > counters[CounterName(p)]
         /\ counters' = [counters EXCEPT ![CounterName(p)] = v]
    /\ issued' = <<>>
    /\ UNCHANGED <<chains, ufwRules, configFile, usageFile, tmpFile, daemonVars,
                   consoleVars, resetSince, writeVars, ufwOpVars, callVars, loopVars>>

----
\* The host before portquota runs
AllowedAll ==
    <<UfwRule(9000, "tcp", "ALLOW", FALSE), UfwRule(9001, "tcp", "ALLOW", FALSE),
      UfwRule(9000, "tcp", "ALLOW", TRUE),  UfwRule(9001, "tcp", "ALLOW", TRUE)>>

InitUfw == {AllowedAll}

EmptyCfg == [general |-> [unit |-> "GB", protocols |-> <<>>], ports |-> <<>>]

InitIdle ==
    /\ usageFile = NoFile
    /\ tmpFile = NoFile
    /\ dpc = "stopped" /\ dItems = <<>> /\ dUnit = "GB"
    /\ cpc = "off" /\ cfg = EmptyCfg /\ items = <<>> /\ rows = <<>>
    /\ state = [selected |-> 0, message |-> NoMessage, watch |-> FALSE]
    /\ issued = <<>> /\ resetSince = {}
    /\ wpc = "idle" /\ wData = [unit |-> "GB", ports |-> <<>>] /\ wOld = NoFile
    /\ upc = "idle" /\ uPattern = [port |-> 0, action |-> ""]
    /\ uScanned = <<>> /\ uQueue = <<>>
    /\ sRcs = <<>> /\ sRet = "none"
    /\ pOp = [op |-> "none", port |-> 0]
    /\ dPos = 0 /\ dUsed = <<>> /\ dOut = <<>>

\* a fresh host, and a host an earlier run left its chains and counters on
FreshHost == [counters |-> [n \in CounterNames |-> Absent], chains |-> <<>>]

UsedHost ==
    [counters |-> [n \in CounterNames |->
                      IF n = CounterName(9001) THEN 1000000001 ELSE 0],
     chains   |-> [c \in {INGRESS, EGRESS} |->
                      IF c = INGRESS
                      THEN <<RuleLine(DefaultExclude, "tcp", INGRESS, 9001, CounterName(9001))>>
                      ELSE <<>>]]

InitHosts == {FreshHost, UsedHost}

Init ==
    /\ \E h \in InitHosts : counters = h.counters /\ chains = h.chains
    /\ ufwRules \in InitUfw
    /\ configFile \in InitConfigs
    /\ InitIdle

\* The daemon, the console as a monitor (select, refresh, reset) and traffic
Next ==
    \/ DaemonStart \/ DaemonCycle \/ DaemonStop
    \/ TuiStart \/ KeyQuit \/ KeyUp \/ KeyDown \/ KeyRefresh \/ KeyEnter \/ KeyOther
    \/ Traffic

Spec == Init /\ [][Next]_vars

\* The console as an editor of the port list, on a host without a daemon and
\* without traffic
NextConsole ==
    \/ TuiStart \/ KeyQuit \/ KeyUp \/ KeyDown \/ KeyRefresh \/ KeyEnter
    \/ KeyAdd \/ KeyAddInvalid \/ KeyDelete \/ KeySave \/ KeyOther

InitConsole ==
    /\ counters = FreshHost.counters /\ chains = FreshHost.chains
    /\ ufwRules \in InitUfw
    /\ configFile \in InitConfigs
    /\ InitIdle

SpecConsole == InitConsole /\ [][NextConsole]_vars

----
\* ufw_delete_rules_matching, one external command per step

\* the indices of the numbered lines whose body the regex finds, in the order
\* of the listing
RECURSIVE ToDelete(_, _)
ToDelete(out, pattern) ==
    IF out = <<>> THEN <<>>
    ELSE LET line == Head(out)
         IN  (IF line.num > 0 /\ RegexSearch(pattern, line.body)
              THEN <<line.num>> ELSE <<>>)
             \o ToDelete(Tail(out), pattern)

SeqMax(s) == CHOOSE x \in Range(s) : \A y \in Range(s) : y <= x
SeqMin(s) == CHOOSE x \in Range(s) : \A y \in Range(s) : x <= y

RemoveOne(s, x) == RemoveAt(s, CHOOSE i \in DOMAIN s : s[i] = x)

RECURSIVE sorted_ascending(_)
sorted_ascending(s) ==
    IF s = <<>> THEN <<>>
    ELSE <<SeqMin(s)>> \o sorted_ascending(RemoveOne(s, SeqMin(s)))

\* sorted(to_delete, reverse=True)
RECURSIVE sorted_reverse(_)
sorted_reverse(s) ==
    IF s = <<>> THEN <<>>
    ELSE <<SeqMax(s)>> \o sorted_reverse(RemoveOne(s, SeqMax(s)))

UfwPatterns == {[port |-> p, action |-> a] : p \in Ports, a \in {"ALLOW", "DENY"}}

\* the status listing is read and the matching indices are collected
UfwDeleteScan ==
    /\ upc \in {"idle", "done"}
    /\ \E pattern \in UfwPatterns :
         LET out == ufw_status_text(ufwRules)
         IN  /\ uPattern' = pattern
             /\ uScanned' = out
             /\ uQueue'   = sorted_reverse(ToDelete(out, pattern))
    /\ upc'    = "deleting"
    /\ issued' = <<>>
    /\ UNCHANGED <<nftVars, ufwRules, configFile, usageFile, tmpFile, daemonVars,
                   consoleVars, resetSince, writeVars, callVars, loopVars>>

\* run(["ufw", "delete", str(idx)]) for the next index
UfwDeleteNext ==
    /\ upc = "deleting"
    /\ uQueue # <<>>
    /\ ufwRules' = UfwDeleteIndex(ufwRules, Head(uQueue))
    /\ issued'   = Append(issued, UfwCmd("delete", 0, Head(uQueue)))
    /\ uQueue'   = Tail(uQueue)
    /\ UNCHANGED <<nftVars, configFile, usageFile, tmpFile, daemonVars, consoleVars,
                   resetSince, writeVars, upc, uPattern, uScanned, callVars, loopVars>>

\* the loop over the indices is over
UfwDeleteDone ==
    /\ upc = "deleting"
    /\ uQueue = <<>>
    /\ upc' = "done"
    /\ UNCHANGED <<nftVars, ufwRules, configFile, usageFile, tmpFile, daemonVars,
                   consoleVars, issued, resetSince, writeVars, uPattern, uScanned, uQueue, callVars, loopVars>>

\* the rules a listing is made of
UfwRulePool ==
    {UfwRule(9000, "tcp", "ALLOW", FALSE), UfwRule(9000, "tcp", "ALLOW", TRUE),
     UfwRule(9000, "tcp", "DENY", FALSE),  UfwRule(9001, "tcp", "ALLOW", FALSE),
     UfwRule(9000, "any", "ALLOW", FALSE), UfwRule(9000, "udp", "ALLOW", FALSE)}

\* rule lists as ufw keeps them: no rule twice, IPv4 before IPv6
UfwRuleLists ==
    {rs \in UNION {[1..n -> UfwRulePool] : n \in 0..MaxRules} :
        /\ \A i \in DOMAIN rs : \A j \in DOMAIN rs : rs[i] = rs[j] => i = j
        /\ \A i \in DOMAIN rs : \A j \in DOMAIN rs : (rs[i].v6 /\ ~rs[j].v6) => j < i}

InitUfwOp ==
    /\ counters = FreshHost.counters /\ chains = FreshHost.chains
    /\ ufwRules \in UfwRuleLists
    /\ configFile = EmptyFile
    /\ InitIdle

NextUfw == UfwDeleteScan \/ UfwDeleteNext \/ UfwDeleteDone

SpecUfw == InitUfwOp /\ [][NextUfw]_vars

----
\* write_json_atomic, one file operation per step, with the process killed at
\* any point

\* open(tmp, "w"): files is [usage, tmp]
OpenForWrite_inplace(files) ==
    [usage |-> [exists |-> TRUE, text |-> <<>>], tmp |-> [exists |-> TRUE, text |-> <<>>]]

OpenForWrite(files) ==
    [usage |-> files.usage, tmp |-> [exists |-> TRUE, text |-> <<>>]]

\* os.replace(tmp, path)
OsReplace(files) == [usage |-> files.tmp, tmp |-> NoFile]

OpenEntry == [port |-> 9000, bytes |-> 0, limit |-> 2, direction |-> "both", status |-> "open"]
BlockedEntry ==
    [port |-> 9000, bytes |-> 1000000001, limit |-> 2, direction |-> "both", status |-> "blocked"]
OtherEntry == [port |-> 9001, bytes |-> 0, limit |-> 1, direction |-> "egress", status |-> "open"]

\* the snapshots a cycle hands to write_json_atomic
SnapshotData ==
    {[unit |-> "GB", ports |-> ps] :
        ps \in {<<>>, <<OpenEntry>>, <<BlockedEntry>>, <<OpenEntry, OtherEntry>>,
                <<BlockedEntry, OtherEntry>>}}

\* write_json_atomic(usage_file, out) is called
WriteBegin ==
    /\ wpc = "idle"
    /\ \E data \in SnapshotData : wData' = data
    /\ wOld' = usageFile
    /\ wpc'  = "open"
    /\ UNCHANGED <<nftVars, ufwRules, configFile, usageFile, tmpFile, daemonVars,
                   consoleVars, issued, resetSince, ufwOpVars, callVars, loopVars>>

\* with open(tmp, "w") as f
WriteOpen ==
    /\ wpc = "open"
    /\ LET files == OpenForWrite([usage |-> usageFile, tmp |-> tmpFile])
       IN  usageFile' = files.usage /\ tmpFile' = files.tmp
    /\ wpc' = "dump"
    /\ UNCHANGED <<nftVars, ufwRules, configFile, daemonVars, consoleVars, issued,
                   resetSince, wData, wOld, ufwOpVars, callVars, loopVars>>

\* json.dump: the next part of the text reaches the file
WriteChunk ==
    /\ wpc = "dump"
    /\ Len(tmpFile.text) < Len(JsonDump(wData))
    /\ tmpFile' = [tmpFile EXCEPT !.text = Append(@, JsonDump(wData)[Len(tmpFile.text) + 1])]
    /\ UNCHANGED <<nftVars, ufwRules, configFile, usageFile, daemonVars, consoleVars,
                   issued, resetSince, writeVars, ufwOpVars, callVars, loopVars>>

\* the with block ends: the file is closed with the whole text in it
WriteClose ==
    /\ wpc = "dump"
    /\ Len(tmpFile.text) = Len(JsonDump(wData))
    /\ wpc' = "replace"
    /\ UNCHANGED <<nftVars, ufwRules, configFile, usageFile, tmpFile, daemonVars,
                   consoleVars, issued, resetSince, wData, wOld, ufwOpVars, callVars, loopVars>>

\* os.replace(tmp, path)
WriteReplace ==
    /\ wpc = "replace"
    /\ LET files == OsReplace([usage |-> usageFile, tmp |-> tmpFile])
       IN  usageFile' = files.usage /\ tmpFile' = files.tmp
    /\ wpc' = "idle"
    /\ UNCHANGED <<nftVars, ufwRules, configFile, daemonVars, consoleVars, issued,
                   resetSince, wData, wOld, ufwOpVars, callVars, loopVars>>

\* the daemon is interrupted or killed inside write_json_atomic; the files
\* stay as they are and the next run writes again
WriteCrash ==
    /\ wpc \in {"open", "dump", "replace"}
    /\ wpc' = "idle"
    /\ UNCHANGED <<nftVars, ufwRules, configFile, usageFile, tmpFile, daemonVars,
                   consoleVars, issued, resetSince, wData, wOld, ufwOpVars, callVars, loopVars>>

InitWrite ==
    /\ counters = FreshHost.counters /\ chains = FreshHost.chains
    /\ ufwRules = AllowedAll
    /\ configFile = TwoPortFile
    /\ InitIdle

NextWrite ==
    WriteBegin \/ WriteOpen \/ WriteChunk \/ WriteClose \/ WriteReplace \/ WriteCrash

SpecWrite == InitWrite /\ [][NextWrite]_vars

----
\* Properties

DaemonStep == DaemonStart \/ DaemonCycle \/ DaemonStop

SyncStep == DaemonStart \/ TuiStart

HasCmd(cmds, tool, verb) ==
    \E i \in DOMAIN cmds : cmds[i].tool = tool /\ cmds[i].verb = verb

UsageOf(file, port) ==
    {e \in Range(UsageEntries(file)) : e.port = port}

\* C2: a run of sync_rules (at the start of the daemon or of the console)
\* leaves the tally of every counter that exists as it is, whether or not its
\* port is configured, and a counter that is absent is at most created at zero
C2_SyncKeepsTallies ==
    [][SyncStep =>
         \A n \in CounterNames :
            /\ counters[n] # Absent => counters'[n] = counters[n]
            /\ counters[n] = Absent => counters'[n] \in {Absent, 0}]_vars

\* a counter with a tally whose port the running daemon does not monitor
C2_Witness ==
    /\ dpc = "running"
    /\ Len(dItems) > 0
    /\ \A i \in DOMAIN dItems : dItems[i].port # 9001
    /\ counters[CounterName(9001)] = 1000000001
    /\ counters[CounterName(9000)] = 1000000000

\* C4: a port the last snapshot records as blocked is recorded as blocked by
\* the next cycle too, unless the operator has reset it in between
C4_MonotonicBlocking ==
    [][DaemonCycle =>
         \A e \in Range(UsageEntries(usageFile)) :
            (e.status = "blocked" /\ e.port \notin resetSince)
               => \A f \in UsageOf(usageFile', e.port) : f.status = "blocked"]_vars

\* C5: every status in the usage file and in the rows of the console is
\* blocked exactly when the bytes read are at least the limit in bytes
C5_InclusiveThreshold ==
    /\ \A e \in Range(UsageEntries(usageFile)) :
          /\ e.status \in {"open", "blocked"}
          /\ e.status = "blocked"
               <=> e.bytes >= LimitBytes(e.limit, UnitSize(UsageUnit(usageFile)))
    /\ cpc = "running" =>
          \A i \in DOMAIN rows :
             /\ rows[i].status \in {"open", "blocked"}
             /\ rows[i].status = "blocked"
                  <=> rows[i].bytes >= LimitBytes(rows[i].limit, ConsoleUnitSize)

\* usage exactly at the limit is recorded as blocked, by the daemon and by the
\* console
C5_Witness ==
    /\ \E e \in Range(UsageEntries(usageFile)) :
          e.bytes = 1000000000 /\ e.limit = 2 /\ e.status = "blocked"
    /\ cpc = "running"
    /\ \E i \in DOMAIN rows :
          rows[i].bytes = 1000000000 /\ rows[i].limit = 2 /\ rows[i].status = "blocked"

\* C6: no step of the daemon adds an allow rule or issues an allow command,
\* and a step that does either is the reset of the console
C6_NoAutomaticUnblock ==
    [][/\ DaemonStep =>
            /\ AllowRules(ufwRules') \subseteq AllowRules(ufwRules)
            /\ ~HasCmd(issued', "ufw", "allow")
       /\ (~(AllowRules(ufwRules') \subseteq AllowRules(ufwRules))
           \/ HasCmd(issued', "ufw", "allow")) => KeyEnter]_vars

\* the daemon has cycled over a port that stays blocked: recorded as blocked,
\* its allow rules gone, the daemon still running
C6_Witness ==
    /\ dpc = "running"
    /\ \E e \in Range(UsageEntries(usageFile)) :
          /\ e.status = "blocked"
          /\ \A r \in AllowRules(ufwRules) : r.port # e.port
          /\ HasCmd(issued, "ufw", "delete allow")

ScenarioTuples(ch) ==
    UNION {{<<c, ch[c][i].proto>> : i \in DOMAIN ch[c]} : c \in DOMAIN ch}

RuleCount(ch) ==
    (IF INGRESS \in DOMAIN ch THEN Len(ch[INGRESS]) ELSE 0)
    + (IF EGRESS \in DOMAIN ch THEN Len(ch[EGRESS]) ELSE 0)

\* C10: with the one-port configuration (9000, 1 GB, both, tcp+udp): a
\* synchronization leaves exactly the 4 rules ingress/egress x tcp/udp, all on
\* port 9000 and counter port9000_total; a cycle that reads 1,000,000,001
\* bytes records blocked and issues the block of 9000; the reset of the console
\* zeroes the counter, issues the allow and computes the status open, and so
\* does the next cycle of the daemon while the tally is still zero
C10_EndToEnd ==
    [][configFile = ScenarioFile =>
        /\ SyncStep =>
             /\ RuleCount(chains') = 4
             /\ ScenarioTuples(chains') = {INGRESS, EGRESS} \X {"tcp", "udp"}
             /\ \A c \in DOMAIN chains' : \A i \in DOMAIN chains'[c] :
                   /\ chains'[c][i].port = 9000
                   /\ chains'[c][i].counter = CounterName(9000)
        /\ DaemonCycle =>
             \A e \in UsageOf(usageFile', 9000) :
                /\ e.bytes = 1000000001 =>
                     /\ e.status = "blocked"
                     /\ issued' = <<UfwCmd("delete allow", 9000, 0)>>
                     /\ \A r \in AllowRules(ufwRules') : r.port # 9000
                /\ (counters[CounterName(9000)] = 0 /\ 9000 \in resetSince) =>
                     e.status = "open"
        /\ KeyEnter =>
             /\ counters'[CounterName(9000)] = 0
             /\ issued' = <<NftCmd("reset counter", CounterName(9000)),
                            UfwCmd("allow", 9000, 0)>>
             /\ \E r \in AllowRules(ufwRules') : r.port = 9000 /\ r.proto = "tcp"
             /\ Len(rows') = 1 /\ rows'[1].port = 9000 /\ rows'[1].status = "open"]_vars

\* the scenario at its end: the snapshot of the daemon still says blocked at
\* 1,000,000,001 bytes, the operator has just reset the port
C10_Witness ==
    /\ configFile = ScenarioFile
    /\ RuleCount(chains) = 4
    /\ \E e \in UsageOf(usageFile, 9000) : e.bytes = 1000000001 /\ e.status = "blocked"
    /\ issued = <<NftCmd("reset counter", CounterName(9000)), UfwCmd("allow", 9000, 0)>>
    /\ counters[CounterName(9000)] = 0
    /\ Len(rows) = 1 /\ rows[1].status = "open"
    /\ \E r \in AllowRules(ufwRules) : r.port = 9000

\* the text a save would write now
SaveText ==
    render_config_toml(cfg.general,
        [i \in 1..Len(items) |-> Entry(items[i].port, items[i].limit_gb, items[i].direction)])

\* C1: from any state of the chains and counters, for the configuration on
\* disk and for the one a save would write, sync_rules run twice leaves in
\* every chain the same rules, as a multiset, as sync_rules run once
C1_SyncIdempotent ==
    \A f \in {configFile, SaveText} :
        LET c     == load_config(f)
            once  == sync_rules(c, chains, counters)
            twice == sync_rules(c, once.chains, once.counters)
        IN  /\ DOMAIN twice.chains = DOMAIN once.chains
            /\ \A d \in DOMAIN once.chains :
                  BagOfSeq(twice.chains[d]) = BagOfSeq(once.chains[d])

\* the chains hold the rules of a synchronized configuration, and the list a
\* save would write names a port twice
C1_Witness ==
    /\ cpc = "running"
    /\ RuleCount(chains) >= 4
    /\ Len(items) = 2
    /\ items[1].port = items[2].port
    /\ load_config(configFile).ports # load_config(SaveText).ports

\* C3: no chain holds two rules for the same (port, direction, protocol)
C3_AtMostOneRulePerTuple ==
    \A c \in DOMAIN chains : \A i \in DOMAIN chains[c] : \A j \in DOMAIN chains[c] :
        (chains[c][i].port = chains[c][j].port /\ chains[c][i].proto = chains[c][j].proto)
           => i = j

\* the indices of the scanned listing whose body the pattern matches
MatchingIndices ==
    {uScanned[k].num : k \in {k \in DOMAIN uScanned :
        uScanned[k].num > 0 /\ RegexSearch(uPattern, uScanned[k].body)}}

\* the body the scanned listing showed under an index
ScannedBody(idx) ==
    uScanned[CHOOSE k \in DOMAIN uScanned : uScanned[k].num = idx].body

\* the indices deleted so far, then the ones still to delete
DeleteOrder == [i \in DOMAIN issued |-> issued[i].idx] \o uQueue

\* C8: the delete commands of one call of ufw_delete_rules_matching name all
\* and only the indices of the scanned lines that match, in strictly
\* descending order; when a delete is issued the rule under its index is the
\* one the scanned listing showed there; at the end exactly the lines that did
\* not match are left, in their order
C8_DeletionOrder ==
    upc \in {"deleting", "done"} =>
        /\ Range(DeleteOrder) = MatchingIndices
        /\ \A i \in DOMAIN DeleteOrder : \A j \in DOMAIN DeleteOrder :
              i < j => DeleteOrder[i] > DeleteOrder[j]
        /\ \A i \in DOMAIN issued : issued[i].tool = "ufw" /\ issued[i].verb = "delete"
        /\ \A k \in DOMAIN uQueue :
              /\ uQueue[k] \in DOMAIN ufwRules
              /\ StatusBody(ufwRules[uQueue[k]]) = ScannedBody(uQueue[k])
        /\ upc = "done" =>
              LET kept == SelectSeq(uScanned, LAMBDA l :
                              l.num > 0 /\ ~RegexSearch(uPattern, l.body))
              IN  [i \in DOMAIN ufwRules |-> StatusBody(ufwRules[i])]
                    = [i \in DOMAIN kept |-> kept[i].body]

\* lines 1 and 3 matched and were deleted as 3 then 1; line 2 is left
C8_Witness ==
    /\ upc = "done"
    /\ Len(issued) = 2
    /\ issued[1].idx = 3 /\ issued[2].idx = 1
    /\ Len(ufwRules) = 1

\* C9: the usage file is at every moment either the complete file that was
\* there when the write began or the complete new one; text that is not a
\* complete document is in the temporary file only
C9_AtomicSnapshot ==
    /\ usageFile.exists => IsCompleteJson(usageFile.text)
    /\ usageFile \in {wOld, [exists |-> TRUE, text |-> JsonDump(wData)]}

\* the writer died in the middle of json.dump: the temporary file holds part
\* of the new text, the usage file the complete old one
C9_Witness ==
    /\ wpc = "idle"
    /\ tmpFile.exists
    /\ 0 < Len(tmpFile.text) /\ Len(tmpFile.text) < Len(JsonDump(wData))
    /\ usageFile.exists
    /\ usageFile.text # JsonDump(wData)

----
\* sync_rules with the return code of every mutating command: run() and
\* nft_f() hand back the CompletedProcess, and sync_rules drops it

\* the mutating commands of sync_rules as logged
SyncCmd(verb, chain, counter_name, port) ==
    [tool |-> "nft", verb |-> verb, name |-> counter_name, port |-> port,
     idx |-> IF chain = INGRESS THEN 1 ELSE IF chain = EGRESS THEN 2 ELSE 0]

NoName == <<"", 0, "">>

\* one nft_f(...) call: the command is logged with its return code; it has
\* its effect unless it is one of `fails` or cannot succeed on this backend
NftRun(nft, cmd, fails, possible, chains_after, counters_after) ==
    LET ok == possible /\ (Len(nft.cmds) + 1) \notin fails
    IN  [chains   |-> IF ok THEN chains_after ELSE nft.chains,
         counters |-> IF ok THEN counters_after ELSE nft.counters,
         cmds     |-> Append(nft.cmds, cmd),
         rcs      |-> Append(nft.rcs, IF ok THEN 0 ELSE 1)]

\* ensure_infra: `add chain` for each chain `nft list chain` does not find
ensure_infra_rc(nft, fails) ==
    LET n1 == IF INGRESS \in DOMAIN nft.chains THEN nft
              ELSE NftRun(nft, SyncCmd("add chain", INGRESS, NoName, 0), fails, TRUE,
                          NftAddChain(nft.chains, INGRESS), nft.counters)
    IN  IF EGRESS \in DOMAIN n1.chains THEN n1
        ELSE NftRun(n1, SyncCmd("add chain", EGRESS, NoName, 0), fails, TRUE,
                    NftAddChain(n1.chains, EGRESS), n1.counters)

\* nft_f("flush chain ..."): an error on a chain that does not exist
flush_rc(nft, c, fails) ==
    NftRun(nft, SyncCmd("flush chain", c, NoName, 0), fails, c \in DOMAIN nft.chains,
           NftFlushChain(nft.chains, c), nft.counters)

\* ensure_counter: `add counter` when `nft list counter` does not find it
ensure_counter_rc(nft, counter_name, fails) ==
    IF nft.counters[counter_name] # Absent THEN nft
    ELSE NftRun(nft, SyncCmd("add counter", "", counter_name, 0), fails, TRUE,
                nft.chains, ensure_counter(nft.counters, counter_name))

\* add_one: an error when the chain or the counter the rule names is missing
add_one_rc(nft, direction, proto, port, counter_name, fails) ==
    LET rule == RuleLine(DefaultExclude, proto, direction, port, counter_name)
    IN  NftRun(nft, SyncCmd("add rule", direction, counter_name, port), fails,
               direction \in DOMAIN nft.chains /\ nft.counters[counter_name] # Absent,
               NftAddRule(nft.chains, rule), nft.counters)

RECURSIVE AddProtosRc(_, _, _, _, _, _)
AddProtosRc(nft, d, protos, port, cname, fails) ==
    IF protos = <<>> THEN nft
    ELSE AddProtosRc(add_one_rc(nft, d, Head(protos), port, cname, fails),
                     d, Tail(protos), port, cname, fails)

RECURSIVE AddDirsRc(_, _, _, _, _, _)
AddDirsRc(nft, dirs, protos, port, cname, fails) ==
    IF dirs = <<>> THEN nft
    ELSE AddDirsRc(AddProtosRc(nft, Head(dirs), protos, port, cname, fails),
                   Tail(dirs), protos, port, cname, fails)

RECURSIVE SyncPortsRc(_, _, _, _)
SyncPortsRc(nft, ports, protos, fails) ==
    IF ports = <<>> THEN nft
    ELSE LET p     == Head(ports)
             cname == CounterName(p.port)
         IN  SyncPortsRc(AddDirsRc(ensure_counter_rc(nft, cname, fails),
                                   DirsOf(p.direction), protos, p.port, cname, fails),
                         Tail(ports), protos, fails)

\* sync_rules(cfg) where the commands numbered in `fails` fail; no return
\* code is read, so every command of the run is issued whatever the others did
sync_rules_rc(c, ch, ctr, fails) ==
    LET start   == [chains |-> ch, counters |-> ctr, cmds |-> <<>>, rcs |-> <<>>]
        infra   == ensure_infra_rc(start, fails)
        flushed == flush_rc(flush_rc(infra, INGRESS, fails), EGRESS, fails)
    IN  SyncPortsRc(flushed, c.ports, c.general.protocols, fails)

\* the backend fails at most one command of a run, or none
FailChoices(c, ch, ctr) ==
    {{}} \cup (IF RuleCount(ch) <= MaxChainRules
               THEN {{k} : k \in 1..Len(sync_rules_rc(c, ch, ctr, {}).cmds)}
               ELSE {})

\* a caller (loop, run_tui, save_config) calls sync_rules(cfg) and goes on:
\* sync_rules has no return statement and raises nothing on a return code
SyncCall ==
    /\ LET c == load_config(configFile)
       IN  \E fails \in FailChoices(c, chains, counters) :
              LET nft == sync_rules_rc(c, chains, counters, fails)
              IN  /\ chains'   = nft.chains
                  /\ counters' = nft.counters
                  /\ issued'   = nft.cmds
                  /\ sRcs'     = nft.rcs
    /\ sRet' = "returned"
    /\ UNCHANGED <<ufwRules, configFile, usageFile, tmpFile, daemonVars, consoleVars,
                   resetSince, writeVars, ufwOpVars, pOp, loopVars>>

\* the operator edits config.toml between two runs
ConfigEdit ==
    /\ \E f \in InitConfigs : f # configFile /\ configFile' = f
    /\ UNCHANGED <<nftVars, ufwRules, usageFile, tmpFile, daemonVars, consoleVars,
                   issued, resetSince, writeVars, ufwOpVars, callVars, loopVars>>

InitSync ==
    /\ \E h \in InitHosts : counters = h.counters /\ chains = h.chains
    /\ ufwRules \in InitUfw
    /\ configFile \in InitConfigs
    /\ InitIdle

NextSync == SyncCall \/ ConfigEdit

SpecSync == InitSync /\ [][NextSync]_vars

\* C11: when a flush or an add-rule command of a run of sync_rules fails, the
\* caller gets a failure from sync_rules, and the run emits no rule after the
\* failed command
C11_SyncFailureSurfaced ==
    \A k \in DOMAIN sRcs :
        (sRcs[k] # 0 /\ issued[k].verb \in {"flush chain", "add rule"})
           => /\ sRet = "raised"
              /\ \A j \in DOMAIN issued : j > k => issued[j].verb # "add rule"

----
\* Policy adapter: block, and the fine mode deny / allow, one external
\* command per step

\* one line of `ufw status` (not numbered): "9000/tcp (v6)   ALLOW   Anywhere (v6)"
StatusBodyPlain(r) ==
    <<PortWord(r.port, r.proto)>>
    \o (IF r.v6 THEN <<Word("(v6)")>> ELSE <<>>)
    \o <<Word(r.action), Word("Anywhere")>>
    \o (IF r.v6 THEN <<Word("(v6)")>> ELSE <<>>)

\* ufw_status_text(): the lines of `ufw status`
ufw_status_plain(rules) ==
    <<<<Word("Status:"), Word("active")>>,
      <<Word("To"), Word("Action"), Word("From")>>>>
    \o [i \in 1..Len(rules) |-> StatusBodyPlain(rules[i])]

is_port_allowed_tcp(rules, port) ==
    \E l \in Range(ufw_status_plain(rules)) :
        RegexSearch([port |-> port, action |-> "ALLOW"], l)

is_port_denied_tcp(rules, port) ==
    \E l \in Range(ufw_status_plain(rules)) :
        RegexSearch([port |-> port, action |-> "DENY"], l)

\* ufw insert 1 deny <port>/tcp: the IPv4 rule becomes rule 1, the IPv6 rule
\* the first of the IPv6 rules; a rule that is there already is skipped
UfwInsertDenyTcp(rules, port) ==
    LET r4 == UfwRule(port, "tcp", "DENY", FALSE)
        r6 == UfwRule(port, "tcp", "DENY", TRUE)
        v4 == SelectSeq(rules, LAMBDA r : ~r.v6)
        v6 == SelectSeq(rules, LAMBDA r : r.v6)
    IN  (IF r4 \in Range(rules) THEN v4 ELSE <<r4>> \o v4)
        \o (IF r6 \in Range(rules) THEN v6 ELSE <<r6>> \o v6)

\* block_port_tcp_by_removing_allow(port), as loop() calls it
BlockCall ==
    /\ upc \in {"idle", "done"}
    /\ \E port \in Ports :
         /\ ufwRules' = block_port_tcp_by_removing_allow(ufwRules, port)
         /\ issued'   = <<UfwCmd("delete allow", port, 0)>>
         /\ pOp'      = [op |-> "block", port |-> port]
    /\ upc' = "done"
    /\ UNCHANGED <<nftVars, configFile, usageFile, tmpFile, daemonVars, consoleVars,
                   resetSince, writeVars, uPattern, uScanned, uQueue, sRcs, sRet, loopVars>>

\* the call of ufw_delete_rules_matching that opens deny_port_tcp and
\* allow_port_tcp: the numbered listing is read and the indices are collected
FineScan(op, action) ==
    /\ \E port \in Ports :
         LET pattern == [port |-> port, action |-> action]
             out     == ufw_status_text(ufwRules)
         IN  /\ uPattern' = pattern
             /\ uScanned' = out
             /\ uQueue'   = sorted_reverse(ToDelete(out, pattern))
             /\ pOp'      = [op |-> op, port |-> port]
    /\ upc'    = "deleting"
    /\ issued' = <<>>
    /\ UNCHANGED <<nftVars, ufwRules, configFile, usageFile, tmpFile, daemonVars,
                   consoleVars, resetSince, writeVars, sRcs, sRet, loopVars>>

\* deny_port_tcp(port) is called
DenyCall ==
    /\ upc \in {"idle", "done"}
    /\ FineScan("deny", "ALLOW")

\* allow_port_tcp(port) is called
AllowCall ==
    /\ upc \in {"idle", "done"}
    /\ FineScan("allow", "DENY")

\* what the last steps of deny_port_tcp and allow_port_tcp leave alone
FineFrame ==
    /\ upc = "deleting"
    /\ uQueue = <<>>
    /\ upc' = "done"
    /\ UNCHANGED <<nftVars, configFile, usageFile, tmpFile, daemonVars, consoleVars,
                   resetSince, writeVars, uPattern, uScanned, uQueue, callVars, loopVars>>

\* deny_port_tcp after the deletions: if not is_port_denied_tcp(port): insert
DenyFinish ==
    /\ pOp.op = "deny"
    /\ FineFrame
    /\ IF ~is_port_denied_tcp(ufwRules, pOp.port)
       THEN /\ ufwRules' = UfwInsertDenyTcp(ufwRules, pOp.port)
            /\ issued'   = Append(issued, UfwCmd("insert deny", pOp.port, 1))
       ELSE UNCHANGED <<ufwRules, issued>>

\* allow_port_tcp after the deletions: if not is_port_allowed_tcp(port): allow
AllowFinish ==
    /\ pOp.op = "allow"
    /\ FineFrame
    /\ IF ~is_port_allowed_tcp(ufwRules, pOp.port)
       THEN /\ ufwRules' = UfwAllowTcp(ufwRules, pOp.port)
            /\ issued'   = Append(issued, UfwCmd("allow", pOp.port, 0))
       ELSE UNCHANGED <<ufwRules, issued>>

\* the rules a policy is made of: port/tcp rules of both kinds and families,
\* and the forms `ufw allow 9000` and `ufw allow 9000/udp` leave
PolicyRulePool ==
    UfwRulePool \cup {UfwRule(9000, "tcp", "DENY", TRUE)}

PolicyRuleLists ==
    {rs \in UNION {[1..n -> PolicyRulePool] : n \in 0..MaxRules} :
        /\ \A i \in DOMAIN rs : \A j \in DOMAIN rs : rs[i] = rs[j] => i = j
        /\ \A i \in DOMAIN rs : \A j \in DOMAIN rs : (rs[i].v6 /\ ~rs[j].v6) => j < i}

InitPolicy ==
    /\ counters = FreshHost.counters /\ chains = FreshHost.chains
    /\ ufwRules \in PolicyRuleLists
    /\ configFile = EmptyFile
    /\ InitIdle

NextPolicy ==
    \/ BlockCall
    \/ DenyCall \/ AllowCall \/ UfwDeleteNext \/ DenyFinish \/ AllowFinish

SpecPolicy == InitPolicy /\ [][NextPolicy]_vars

\* the rules that decide the TCP traffic of a port: <port>/tcp and <port>
TcpRules(rules, port, action) ==
    {i \in DOMAIN rules :
        /\ rules[i].port = port
        /\ rules[i].proto \in {"tcp", "any"}
        /\ rules[i].action = action}

\* C12: when block_port_tcp_by_removing_allow(port) has returned, the policy
\* holds no allow rule for the TCP traffic of the port, IPv4 or IPv6, written
\* as <port>/tcp or as <port>, and the call has added no deny rule
C12_CoarseBlock ==
    [][BlockCall =>
         /\ TcpRules(ufwRules', pOp'.port, "ALLOW") = {}
         /\ \A p \in Ports :
               Cardinality(TcpRules(ufwRules', p, "DENY"))
                  <= Cardinality(TcpRules(ufwRules, p, "DENY"))]_vars

\* C13: when deny_port_tcp(port) has returned, from any rule list, the policy
\* holds no allow rule for the TCP traffic of the port, the first rule for
\* that traffic is a deny rule, and the insert command was issued only if the
\* listing showed no deny rule for <port>/tcp, so no deny rule is there twice
C13_FineModeDeny ==
    [][DenyFinish =>
         LET port  == pOp.port
             first == CHOOSE i \in TcpRules(ufwRules', port, "ALLOW")
                                   \cup TcpRules(ufwRules', port, "DENY") :
                         \A j \in TcpRules(ufwRules', port, "ALLOW")
                                   \cup TcpRules(ufwRules', port, "DENY") : i <= j
         IN  /\ TcpRules(ufwRules', port, "ALLOW") = {}
             /\ TcpRules(ufwRules', port, "DENY") # {}
             /\ ufwRules'[first].action = "DENY"
             /\ HasCmd(issued', "ufw", "insert deny")
                   => ~\E i \in DOMAIN ufwRules :
                          ufwRules[i].port = port /\ ufwRules[i].proto = "tcp"
                          /\ ufwRules[i].action = "DENY"
             /\ \A i \in DOMAIN ufwRules' : \A j \in DOMAIN ufwRules' :
                   ufwRules'[i] = ufwRules'[j] => i = j]_vars

\* a policy in which no port has an allow rule and a deny rule for its TCP
\* traffic
NeverBoth(rules) ==
    \A p \in Ports :
        TcpRules(rules, p, "ALLOW") = {} \/ TcpRules(rules, p, "DENY") = {}

InitFine ==
    /\ InitPolicy
    /\ NeverBoth(ufwRules)

NextFine == DenyCall \/ AllowCall \/ UfwDeleteNext \/ DenyFinish \/ AllowFinish

SpecFine == InitFine /\ [][NextFine]_vars

\* C14: from a policy in which no port has both, no state in or after any
\* sequence of deny_port_tcp and allow_port_tcp calls has an allow rule and a
\* deny rule for the TCP traffic of one port, and neither call adds a rule of
\* the kind it wants when the policy holds one already
C14_AllowDenyNeverCoexist ==
    [][/\ NeverBoth(ufwRules')
       /\ (DenyFinish /\ TcpRules(ufwRules, pOp.port, "DENY") # {})
             => ~HasCmd(issued', "ufw", "insert deny")
       /\ (AllowFinish /\ TcpRules(ufwRules, pOp.port, "ALLOW") # {})
             => ~HasCmd(issued', "ufw", "allow")]_vars

----
\* C15: a counter query that fails, or finds no counter, makes
\* nft_counter_bytes return 0; a cycle of the daemon records every port of
\* its list, each with 0 or the tally of its counter, writes the complete
\* snapshot and leaves the daemon running for the next cycle
C15_ReadFailureIsolated ==
    [][/\ \A n \in CounterNames :
             /\ nft_counter_bytes(counters, n, FALSE) = 0
             /\ counters[n] = Absent => nft_counter_bytes(counters, n, TRUE) = 0
       /\ DaemonCycle =>
             /\ dpc' = "running"
             /\ usageFile'.exists
             /\ IsCompleteJson(usageFile'.text)
             /\ {e.port : e \in Range(UsageEntries(usageFile'))}
                   = {dItems[i].port : i \in DOMAIN dItems}
             /\ \A e \in Range(UsageEntries(usageFile')) :
                   e.bytes \in {0, counters[CounterName(e.port)]} /\ e.bytes >= 0]_vars

\* a cycle over two ports has just ended: the query for 9000 failed (its
\* tally is at the limit, the snapshot says 0 and open), and 9001, which came
\* after it, was read, recorded as blocked and blocked
C15_Witness ==
    /\ dpc = "running"
    /\ Len(dItems) = 2
    /\ issued = <<UfwCmd("delete allow", 9001, 0)>>
    /\ counters[CounterName(9000)] = 1000000000
    /\ \E e \in UsageOf(usageFile, 9000) : e.bytes = 0 /\ e.status = "open"
    /\ \E e \in UsageOf(usageFile, 9001) : e.bytes = 1000000001 /\ e.status = "blocked"

----
\* The daemon started on a config.toml whose port tables may lack a key

\* a second table without `port`, and one without `limit_gb`
BadPortFile ==
    [general |-> [unit |-> "GB", protocols |-> <<"tcp">>],
     ports   |-> <<[port |-> 9000, limit_gb |-> <<1>>, direction |-> "both"],
                   [port |-> NoValue, limit_gb |-> <<1>>, direction |-> "both"]>>]

BadLimitFile ==
    [general |-> [unit |-> "GB", protocols |-> <<"tcp">>],
     ports   |-> <<[port |-> 9000, limit_gb |-> <<1>>, direction |-> "both"],
                   [port |-> 9001, limit_gb |-> <<>>, direction |-> "ingress"]>>]

MalformedConfigs == {BadPortFile, BadLimitFile}

Malformed(c) ==
    \E i \in DOMAIN c.ports : c.ports[i].port = NoValue \/ c.ports[i].limit_gb = NoValue

\* the entries a loop gets through before int(p["port"]) raises
RECURSIVE BeforeBadPort(_)
BeforeBadPort(ports) ==
    IF ports = <<>> \/ Head(ports).port = NoValue THEN <<>>
    ELSE <<Head(ports)>> \o BeforeBadPort(Tail(ports))

\* the entries the items loop gets through before float(p["limit_gb"]) raises
RECURSIVE BeforeBadLimit(_)
BeforeBadLimit(ports) ==
    IF ports = <<>> \/ Head(ports).port = NoValue \/ Head(ports).limit_gb = NoValue
    THEN <<>>
    ELSE <<Head(ports)>> \o BeforeBadLimit(Tail(ports))

\* main() --daemon: load_config, then loop(): ensure_infra, sync_rules, the
\* items loop; the KeyError or ValueError of a table ends the process where
\* it is raised, with the commands issued before it done
DaemonLaunch ==
    LET c      == load_config(configFile)
        synced == [c EXCEPT !.ports = BeforeBadPort(c.ports)]
        nft1   == sync_rules(synced, ensure_infra(chains), counters)
        portOk == Len(synced.ports) = Len(c.ports)
        its    == ItemsOf([c EXCEPT !.ports = BeforeBadLimit(c.ports)])
        nft2   == IF portOk THEN EnsureAll(nft1, its) ELSE nft1
        ok     == portOk /\ Len(its) = Len(c.ports)
    IN  /\ chains'   = nft2.chains
        /\ counters' = nft2.counters
        /\ issued'   = nft2.cmds
        /\ dpc'      = IF ok THEN "running" ELSE "failed"
        /\ dItems'   = IF ok THEN its ELSE <<>>
        /\ dUnit'    = Upper(c.general.unit)
        /\ UNCHANGED <<ufwRules, configFile, usageFile, tmpFile, consoleVars,
                       resetSince, writeVars, ufwOpVars, callVars, loopVars>>

InitStart ==
    /\ \E h \in InitHosts : counters = h.counters /\ chains = h.chains
    /\ ufwRules \in InitUfw
    /\ configFile \in InitConfigs \cup MalformedConfigs
    /\ InitIdle

NextStart == DaemonLaunch \/ DaemonCycle \/ DaemonStop \/ Traffic

SpecStart == InitStart /\ [][NextStart]_vars

\* C16: the daemon started on a malformed configuration stops with an error
\* and has changed nothing in the counter backend or the policy backend: no
\* chain created or flushed, no rule added, no counter created
C16_MalformedFailsFast ==
    [][(DaemonLaunch /\ Malformed(load_config(configFile)))
          => /\ dpc' = "failed"
             /\ issued' = <<>>
             /\ UNCHANGED <<chains, counters, ufwRules>>]_vars

----
\* The console as an editor, the e key included

\* what the operator types at the two prompts of e / E: nothing, a number
\* ("1"), text float() rejects; nothing, a direction, another word
EditLimitInputs == {<<>>, <<1>>, <<NoValue>>}
EditDirInputs == {"", "egress", "sideways"}

\* e / E: the limit, then the direction, of the selected entry
KeyEdit ==
    /\ KeyFrame
    /\ IF Len(items) > 0
       THEN \E new_lim \in EditLimitInputs : \E new_dir \in EditDirInputs :
              LET idx   == state.selected
                  pos   == IF idx >= 0 THEN idx + 1 ELSE Len(items) + idx + 1
                  it    == PyIndex(items, idx)
                  valid == new_lim # <<>> /\ new_lim # <<NoValue>>
                  lim   == IF valid THEN ParseLimit(new_lim) ELSE it.limit_gb
                  it1   == [it EXCEPT !.limit_gb = lim]
                  msg1  == IF new_lim = <<>> THEN state.message
                           ELSE IF valid THEN <<"limit_updated", it.port>>
                           ELSE <<"invalid_not_changed", 0>>
                  dirOk == new_dir \in {"both", "ingress", "egress"}
                  it2   == IF dirOk THEN [it1 EXCEPT !.direction = new_dir] ELSE it1
                  msg2  == IF dirOk THEN <<"direction_updated", it.port>> ELSE msg1
              IN  /\ items' = [items EXCEPT ![pos] = it2]
                  /\ state' = [state EXCEPT !.message = msg2]
       ELSE UNCHANGED <<items, state>>
    /\ issued' = <<>>
    /\ UNCHANGED <<nftVars, ufwRules, cfg, resetSince>>
    /\ Redraw

\* one session of the console: the keys that select, reset, edit and save
NextEditor ==
    \/ TuiStart \/ KeyUp \/ KeyDown \/ KeyEnter
    \/ KeyAdd \/ KeyAddInvalid \/ KeyEdit \/ KeyDelete \/ KeySave

InitEditor ==
    /\ counters = FreshHost.counters /\ chains = FreshHost.chains
    /\ ufwRules \in InitUfw
    /\ configFile \in {ScenarioFile, EmptyFile}
    /\ InitIdle

SpecEditor == InitEditor /\ [][NextEditor]_vars

\* C17: the a, e and d keys change the list in memory only: config.toml, the
\* counters (which exist, and their tallies), the rules of the chains and the
\* ufw rules are after the key what they were before it
C17_EditInMemoryOnly ==
    [][(KeyAdd \/ KeyAddInvalid \/ KeyEdit \/ KeyDelete)
          => UNCHANGED <<configFile, counters, chains, ufwRules>>]_vars

\* the (port, protocol, counter) of the rules a chain must hold for a list
RulesWanted(its, chain, protos) ==
    {<<its[i].port, protos[k], CounterName(its[i].port)>> :
        i \in {i \in DOMAIN its : its[i].direction \in {"both", chain}},
        k \in DOMAIN protos}

RulesHeld(ch, chain) ==
    {<<ch[chain][i].port, ch[chain][i].proto, ch[chain][i].counter>> :
        i \in DOMAIN ch[chain]}

ShowsUnsaved(st) == st.message[1] = "removed_unsaved"

\* C19: an add, edit or remove that changes the list leaves a status line that
\* says the list is not saved; the line keeps saying so over every key but s;
\* after s it says so no longer
C19_UnsavedTracked ==
    [][/\ ((KeyAdd \/ KeyEdit \/ KeyDelete) /\ items' # items) => ShowsUnsaved(state')
       /\ (ShowsUnsaved(state) /\ cpc' = "running" /\ ~KeySave) => ShowsUnsaved(state')
       /\ KeySave => ~ShowsUnsaved(state')]_vars

\* C20: while the console runs, the selected index is at least 0 and at most
\* max(0, len(items) - 1)
C20_SelectionInBounds ==
    cpc = "running" =>
        /\ 0 <= state.selected
        /\ state.selected <= (IF Len(items) - 1 > 0 THEN Len(items) - 1 ELSE 0)

----
\* One run of the daemon, from its start on: usage.json, absent before the
\* first cycle, holds what the cycle before wrote

\* main() --daemon on a host where no daemon runs
DaemonBoot ==
    /\ dpc = "stopped"
    /\ DaemonStart

NextLoop ==
    \/ DaemonBoot \/ DaemonCycle
    \/ TuiStart \/ KeyUp \/ KeyDown \/ KeyEnter
    \/ Traffic

SpecLoop == Init /\ [][NextLoop]_vars

\* the ports a handler asked the policy adapter to block
BlockedBy(cmds) ==
    {cmds[k].port : k \in {k \in DOMAIN cmds :
                              cmds[k].tool = "ufw" /\ cmds[k].verb = "delete allow"}}

\* the status the last cycle wrote for a port
StatusIn(file, port) ==
    {e.status : e \in {e \in Range(UsageEntries(file)) : e.port = port}}

\* C21: a cycle of the daemon loop issues the block of a port only when the
\* cycle is the first one of the run or the cycle before recorded the port as
\* open; a port recorded as blocked is not blocked again
C21_BlockOnTransitionOnly ==
    [][DaemonCycle =>
         \A p \in BlockedBy(issued') :
             ~usageFile.exists \/ StatusIn(usageFile, p) = {"open"}]_vars

----
\* The daemon loop command by command, beside the console: the daemon and the
\* console are two processes on the same nft counters and ufw rules

\* the index of the entry the for loop takes next
LoopIndex == IF dPos = 0 THEN 1 ELSE dPos

\* used_bytes = nft_counter_bytes(cname), the first entry of a cycle after
\* out = {...}
LoopRead ==
    /\ dpc = "running"
    /\ dUsed = <<>>
    /\ LoopIndex <= Len(dItems)
    /\ \E ok \in BOOLEAN :
         dUsed' = <<nft_counter_bytes(counters, dItems[LoopIndex].cname, ok)>>
    /\ dPos'   = LoopIndex
    /\ dOut'   = IF dPos = 0 THEN <<>> ELSE dOut
    /\ issued' = <<NftCmd("list counter", dItems[LoopIndex].cname)>>
    /\ UNCHANGED <<nftVars, ufwRules, configFile, usageFile, tmpFile, daemonVars,
                   consoleVars, resetSince, writeVars, ufwOpVars, callVars>>

\* the rest of the loop body for the entry: exceeded from the bytes that were
\* read, the block if exceeded, the entry of out
LoopAct ==
    /\ dpc = "running"
    /\ dUsed # <<>>
    /\ LET acc == LoopBody([ufw |-> ufwRules, cmds |-> <<>>, out |-> dOut],
                           dItems[dPos], dUsed[1], UnitSize(dUnit))
       IN  /\ ufwRules' = acc.ufw
           /\ issued'   = acc.cmds
           /\ dOut'     = acc.out
    /\ dUsed' = <<>>
    /\ dPos'  = dPos + 1
    /\ UNCHANGED <<nftVars, configFile, usageFile, tmpFile, daemonVars,
                   consoleVars, resetSince, writeVars, ufwOpVars, callVars>>

\* write_json_atomic(usage_file, out) after the last entry, then the sleep
LoopWrite ==
    /\ dpc = "running"
    /\ dUsed = <<>>
    /\ LoopIndex > Len(dItems)
    /\ usageFile'  = write_json_atomic([unit |-> dUnit,
                                        ports |-> IF dPos = 0 THEN <<>> ELSE dOut])
    /\ tmpFile'    = NoFile
    /\ dPos'       = 0
    /\ dOut'       = <<>>
    /\ issued'     = <<>>
    /\ resetSince' = {}
    /\ UNCHANGED <<nftVars, ufwRules, configFile, daemonVars, consoleVars,
                   dUsed, writeVars, ufwOpVars, callVars>>

NextRace ==
    \/ DaemonBoot \/ LoopRead \/ LoopAct \/ LoopWrite
    \/ TuiStart \/ KeyDown \/ KeyEnter
    \/ Traffic

SpecRace == Init /\ [][NextRace]_vars

\* the limit of a port in bytes, as the daemon computes it
LimitOf(port) ==
    LET i == CHOOSE i \in DOMAIN dItems : dItems[i].port = port
    IN  LimitBytes(dItems[i].limit_gb, UnitSize(dUnit))

\* C22: when the daemon removes the allow rule of a port the operator has
\* reset since the last snapshot, the counter of the port is at its limit
\* again: the daemon does not act on bytes it read before the reset
C22_ResetNotUndone ==
    [][LoopAct =>
         \A p \in resetSince \cap BlockedBy(issued') :
             counters[CounterName(p)] >= LimitOf(p)]_vars

====
